---- MODULE Spec2Model ----
(***************************************************************************)
(* Model of tta_automation_v2/00_ticker_preprocessing.py:                  *)
(* filter_by_basic_criteria, the liquidity filter with retry/backoff and   *)
(* checkpoint/resume.  One action per step of the function; the external   *)
(* quote lookup (yfinance) is an input chosen per attempt.                 *)
(***************************************************************************)
EXTENDS Integers, Sequences, FiniteSets, TLC

\* ---------------------------------------------------------------- bounds
MaxTickers  == 2      \* longest input list of a single run (Spec)
MaxResumed  == 3      \* longest input list of a run and its rerun (SpecResume)
MaxRetries  == 2      \* largest max_retries argument
MaxInterval == 2      \* largest checkpoint_interval argument
MaxRaw      == 2      \* longest list of raw symbols given to clean_ticker_list

\* the arguments of the call that are numbers of the data, chosen small
min_market_cap == 2
min_price      == 2
min_volume     == 2
base_delay     == 1   \* the unit the sleeps are counted in

\* ----------------------------------------------------------- input sets
Symbols    == {"AAPL", "NA"}
Sectors    == {"Technology"}
Industries == {"Unknown"}
\* a fetched number: unknown (0), below the threshold, equal to it
Values(min) == {0, min - 1, min}

RECURSIVE SeqsUpTo(_, _)
SeqsUpTo(S, n) ==
    IF n = 0 THEN {<<>>}
    ELSE LET shorter == SeqsUpTo(S, n - 1)
         IN  shorter \cup {Append(s, x) : s \in {t \in shorter : Len(t) = n - 1}, x \in S}

NoInfo == [kind |-> "none"]

\* the exceptions a lookup can raise, by the except clause that catches them.
\* An HTTPError carries a response with a status code (429, 404, another one)
\* or none: requests sets the attribute response to None when the exception
\* is built without one.
Errors == {"HTTP429", "HTTP404", "HTTPOther", "HTTPNoResponse",
           "TimeoutException", "RequestException", "Exception"}
\* the errors whose handler sleeps and goes on with the next attempt
Transient == Errors \ {"HTTP404", "HTTPNoResponse"}

\* everything one lookup of a symbol can produce: an info record or an error
DataResults ==
    [kind : {"data"}, market_cap : Values(min_market_cap), price : Values(min_price),
     volume : Values(min_volume), sector : Sectors, industry : Industries]
ErrorResults == [kind : Errors]
AllResults == DataResults \cup ErrorResults

\* a deterministic stub answers every lookup of a symbol the same way
Quote(market_cap, price, volume) ==
    [kind |-> "data", market_cap |-> market_cap, price |-> price,
     volume |-> volume, sector |-> "Technology", industry |-> "Unknown"]
StubResults ==
    { Quote(min_market_cap, min_price, min_volume),
      Quote(min_market_cap, min_price - 1, min_volume),
      [kind |-> "HTTP404"], [kind |-> "HTTP429"], [kind |-> "HTTPNoResponse"] }
\* a live source can answer a lookup with anything
Anything == [kind |-> "any"]
\* the results a lookup can produce, given what the source holds for the symbol
Lookup(held) == IF held = Anything THEN AllResults ELSE {held}

\* ------------------------------------------------------ pure operations
\* a faulty predicate: the threshold itself is rejected
BelowOrAtThreshold(value, min) == value > 0 /\ value <= min

\* a threshold predicate of lines 135, 140, 145: strict, and skipped at 0
BelowThreshold(value, min) == value > 0 /\ value < min

\* a faulty check: a negative "missing" mark is looked for, a zero is not
\* recognised
NoDataIsMissing(market_cap, price, volume) == market_cap < 0 /\ price < 0 /\ volume < 0

\* the first check: no usable data at all (line 128)
NoData(market_cap, price, volume) == market_cap = 0 /\ price = 0 /\ volume = 0

\* a faulty order of the predicates: price is tested before market cap
EvaluatePriceFirst(market_cap, price, volume) ==
    IF NoData(market_cap, price, volume) THEN "no_data"
    ELSE IF BelowThreshold(price, min_price) THEN "price"
    ELSE IF BelowThreshold(market_cap, min_market_cap) THEN "market_cap"
    ELSE IF BelowThreshold(volume, min_volume) THEN "volume"
    ELSE "viable"

\* lines 128-160: the outcome of a fetch that returned an info record
Evaluate(market_cap, price, volume) ==
    IF NoData(market_cap, price, volume) THEN "no_data"
    ELSE IF BelowThreshold(market_cap, min_market_cap) THEN "market_cap"
    ELSE IF BelowThreshold(price, min_price) THEN "price"
    ELSE IF BelowThreshold(volume, min_volume) THEN "volume"
    ELSE "viable"

\* the record appended at lines 151-158
Snapshot(ticker, market_cap, price, volume, sector, industry) ==
    [ticker |-> ticker, market_cap |-> market_cap, price |-> price,
     volume |-> volume, sector |-> sector, industry |-> industry]

RECURSIVE Pow(_, _)
Pow(b, e) == IF e = 0 THEN 1 ELSE b * Pow(b, e - 1)

\* a faulty backoff: every error grows by the factor of the rate limit
BackoffTripling(error, a) == base_delay * Pow(3, a)

\* a faulty backoff: the rate limit grows by the factor of the other errors
BackoffDoubling(error, a) == base_delay * Pow(2, a)

\* lines 166, 176, 181, 186, 191: the backoff after failed attempt number a
Backoff(error, a) ==
    IF error = "HTTP429" THEN base_delay * Pow(3, a) ELSE base_delay * Pow(2, a)

\* a faulty classification: a symbol that raised no error at all is put in
\* the network_error class
ErrorClassNoneIsNetwork(last_error) ==
    IF last_error \in {"HTTP429", "HTTPOther", "HTTP404"}
    THEN (IF last_error = "HTTP429" THEN "rate_limit" ELSE "other_error")
    ELSE IF last_error = "TimeoutException" THEN "timeout"
    ELSE IF last_error \in {"RequestException", "None"} THEN "network_error"
    ELSE "other_error"

\* lines 199-209: the error class chosen from the value held by last_error.
\* last_error is the exception object, except after a timeout, where line
\* 180 stores the string "Timeout".
ErrorClass(last_error) ==
    IF last_error \in {"HTTP429", "HTTPOther", "HTTP404"}
    THEN (IF last_error = "HTTP429" THEN "rate_limit" ELSE "other_error")
    ELSE IF last_error = "TimeoutException" THEN "timeout"
    ELSE IF last_error = "RequestException" THEN "network_error"
    ELSE "other_error"

\* line 180: what the handler of requests.exceptions.Timeout stores
TimeoutLastError == "TimeoutString"

\* pandas' default NA strings that a symbol or a sector can spell
NaStrings == {"", "NA", "NULL"}
NaN == "<nan>"

\* DataFrame.to_csv: a missing value is written as the empty cell
CsvCell(v) == IF v = NaN THEN "" ELSE v
ToCsvRow(r) == [ticker |-> CsvCell(r.ticker), market_cap |-> r.market_cap,
                price |-> r.price, volume |-> r.volume,
                sector |-> CsvCell(r.sector), industry |-> CsvCell(r.industry)]
\* line 214: the whole list is written, one row per record
to_csv(records) == [i \in 1..Len(records) |-> ToCsvRow(records[i])]

\* pandas.read_csv: a cell spelling an NA string is read as NaN
ReadCell(c) == IF c \in NaStrings THEN NaN ELSE c
ReadCsvRow(r) == [ticker |-> ReadCell(r.ticker), market_cap |-> r.market_cap,
                  price |-> r.price, volume |-> r.volume,
                  sector |-> ReadCell(r.sector), industry |-> ReadCell(r.industry)]
\* lines 101-102: read_csv(...).to_dict('records')
read_csv(rows) == [i \in 1..Len(rows) |-> ReadCsvRow(rows[i])]

\* tickers[start_index:]
Slice(list, from) ==
    IF from >= Len(list) THEN <<>> ELSE SubSeq(list, from + 1, Len(list))

ErrorKeys == {"rate_limit", "not_found", "timeout", "network_error", "other_error"}

\* ------------------------------------------- strings of clean_ticker_list
\* a raw symbol is the sequence of its characters
Whitespace == {" "}
\* str.upper, character by character
UpperChar(c) ==
    CASE c = "a" -> "A" [] c = "w" -> "W" [] c = "s" -> "S" [] c = "t" -> "T"
      [] c = "u" -> "U" [] c = "r" -> "R" [] c = "p" -> "P" [] OTHER -> c
upper(s) == [i \in 1..Len(s) |-> UpperChar(s[i])]
\* str.strip: leading and trailing whitespace is removed
RECURSIVE lstrip(_)
lstrip(s) == IF s # <<>> /\ Head(s) \in Whitespace THEN lstrip(Tail(s)) ELSE s
RECURSIVE rstrip(_)
rstrip(s) ==
    IF s # <<>> /\ s[Len(s)] \in Whitespace THEN rstrip(SubSeq(s, 1, Len(s) - 1)) ELSE s
strip(s) == rstrip(lstrip(s))
\* str.endswith and the substring test `sub in s`
endswith(s, suffix) ==
    Len(s) >= Len(suffix) /\ SubSeq(s, Len(s) - Len(suffix) + 1, Len(s)) = suffix
contains(s, sub) ==
    \E i \in 1..(Len(s) - Len(sub) + 1) : SubSeq(s, i, i + Len(sub) - 1) = sub

\* the tests of lines 27, 32, 37, 42, 47 on the stripped symbol
IsOther(ticker) == contains(ticker, <<"^">>) \/ contains(ticker, <<"~">>)
IsWarrant(ticker_upper) ==
    \/ endswith(ticker_upper, <<"W">>)
    \/ endswith(ticker_upper, <<"W", "S">>)
    \/ endswith(ticker_upper, <<"W", "T">>)
IsUnit(ticker_upper) == endswith(ticker_upper, <<"U">>)
IsPreferred(ticker_upper) ==
    contains(ticker_upper, <<"-", "P", "R">>) \/ contains(ticker_upper, <<"-", "P">>)

\* a faulty test: the length guard is missing
IsRightsAnyLength(ticker, ticker_upper) == endswith(ticker_upper, <<"R">>)

IsRights(ticker, ticker_upper) == endswith(ticker_upper, <<"R">>) /\ Len(ticker) > 4

\* a faulty order of the tests: rights before preferred
ExclusionRightsFirst(ticker) ==
    LET ticker_upper == upper(ticker) IN
    IF IsOther(ticker) THEN "other"
    ELSE IF IsWarrant(ticker_upper) THEN "warrants"
    ELSE IF IsUnit(ticker_upper) THEN "units"
    ELSE IF IsRights(ticker, ticker_upper) THEN "rights"
    ELSE IF IsPreferred(ticker_upper) THEN "preferred"
    ELSE "none"

\* lines 26-49: the category a stripped symbol is excluded under, if any
Exclusion(ticker) ==
    LET ticker_upper == upper(ticker) IN
    IF IsOther(ticker) THEN "other"
    ELSE IF IsWarrant(ticker_upper) THEN "warrants"
    ELSE IF IsUnit(ticker_upper) THEN "units"
    ELSE IF IsPreferred(ticker_upper) THEN "preferred"
    ELSE IF IsRights(ticker, ticker_upper) THEN "rights"
    ELSE "none"

\* line 20
ZeroExcluded == [warrants |-> 0, units |-> 0, preferred |-> 0, rights |-> 0, other |-> 0]

\* raw symbols: a stem, a mark inside, an ending, in upper or lower case,
\* with or without surrounding whitespace
Stems == {<<>>, <<"A">>, <<"A", "A", "A">>, <<"A", "A", "A", "A">>}
Marks == {<<>>, <<"^">>, <<"~">>, <<"-", "P">>, <<"-", "P", "R">>}
Endings == {<<>>, <<"W">>, <<"W", "S">>, <<"W", "T">>, <<"U">>, <<"R">>, <<"S">>}
LowerChar(c) ==
    CASE c = "A" -> "a" [] c = "W" -> "w" [] c = "S" -> "s" [] c = "T" -> "t"
      [] c = "U" -> "u" [] c = "R" -> "r" [] c = "P" -> "p" [] OTHER -> c
lower(s) == [i \in 1..Len(s) |-> LowerChar(s[i])]
Bodies == {stem \o mark \o ending : stem \in Stems, mark \in Marks, ending \in Endings}
Cased == Bodies \cup {lower(b) : b \in Bodies}
Pads == {<<>>, <<" ">>}
RawSymbols == {left \o b \o right : left \in Pads, b \in Cased, right \in Pads}
\* the symbols the longer lists are made of: kept ones (one of them padded,
\* in lower case and ending in R), and one of each excluded category
ListSymbols ==
    { <<"A">>, <<" ", "a", "r", " ">>, <<"A", "W">>, <<"A", "^", "U">>,
      <<"A", "U">>, <<"-", "P", "R">>, <<"A", "A", "A", "A", "R">> }

\* ------------------------------------------------------------- state
VARIABLES
    tickers,              \* the input list (argument)
    max_retries,          \* argument
    checkpoint_interval,  \* argument
    source,               \* the data source: per symbol, anything or a fixed answer
    checkpoint_file,      \* ticker_data/preprocessing_checkpoint.csv
    pc,                   \* position in the function; "raised": left by an exception
    viable_tickers, failed_tickers, filtered_out, error_details,
    start_index,          \* resume offset
    idx,                  \* enumerate index over tickers[start_index:]
    attempt,              \* range(max_retries) counter
    success, last_error,
    info,                 \* what the latest lookup produced
    sleeps,               \* time.sleep calls made for the current symbol
    fetched,              \* this run: the input offsets a lookup was made for
    outcome,              \* this run: terminal outcome per input offset
    write_failed,         \* did the checkpoint write of this iteration raise
    lost_writes,          \* did any checkpoint write of this run raise
    rerun,                \* is this the rerun after an earlier run
    prev,                 \* the earlier run: how it ended, the checkpoint rows it
                          \* left, its resume offset, the iterations it finished
                          \* and what it returned
    all_tickers,          \* clean_ticker_list: the argument, a list of raw symbols
    ci,                   \* clean_ticker_list: symbols of the list already handled
    clean_tickers,        \* clean_ticker_list: the symbols kept
    excluded_count,       \* clean_ticker_list: exclusions by category
    stdout,               \* clean_ticker_list: the excluded counts printed
    clean_return,         \* clean_ticker_list: the tuple of values returned
    files                 \* __main__: the output files, <<>> while not written

\* the state of filter_by_basic_criteria and of clean_ticker_list
filter == <<tickers, max_retries, checkpoint_interval, source, checkpoint_file,
            viable_tickers, failed_tickers, filtered_out, error_details,
            start_index, idx, attempt, success, last_error, info, sleeps,
            fetched, outcome, write_failed, lost_writes, rerun, prev>>
cleaner == <<all_tickers, ci, clean_tickers, excluded_count, stdout, clean_return>>

vars == <<pc, filter, cleaner, files>>

params == <<tickers, max_retries, checkpoint_interval, source>>
history == <<lost_writes, rerun, prev>>

Offsets == 0..(Len(tickers) - 1)
\* the offset and the symbol of the current iteration
cur == start_index + idx
ticker == tickers[cur + 1]

EmptyErrors == [k \in ErrorKeys |-> <<>>]
ZeroCounts  == [market_cap |-> 0, price |-> 0, volume |-> 0, no_data |-> 0]
\* what a call returns (line 236), with the rejection counts it prints
Returned(viable, failed, counts, errors) ==
    [viable |-> viable, failed |-> failed, counts |-> counts, errors |-> errors]
NoReturn == Returned(<<>>, <<>>, ZeroCounts, EmptyErrors)
NoPrev == [interrupted |-> FALSE, flushed |-> FALSE, lost |-> FALSE,
           left |-> <<>>, start |-> 0, done |-> 0, returned |-> NoReturn]

\* lines 76-85 and 98: the locals at entry
Entry ==
    /\ viable_tickers = <<>>
    /\ failed_tickers = <<>>
    /\ filtered_out = ZeroCounts
    /\ error_details = EmptyErrors
    /\ start_index = 0
    /\ idx = 0
    /\ attempt = 0
    /\ success = FALSE
    /\ last_error = "None"
    /\ info = NoInfo
    /\ sleeps = <<>>
    /\ write_failed = FALSE
    /\ lost_writes = FALSE
    /\ fetched = {}
    /\ outcome = [p \in Offsets |-> "pending"]

\* lines 19-20: the locals of clean_ticker_list at entry; nothing is printed
\* or returned yet
CleanEntry ==
    /\ ci = 0
    /\ clean_tickers = <<>>
    /\ excluded_count = ZeroExcluded
    /\ stdout = <<>>
    /\ clean_return = <<>>

\* clean_ticker_list is not under way
CleanerIdle == all_tickers = <<>> /\ CleanEntry

\* no output file is written: the detailed table, the ticker list, the
\* failed tickers, the error details
NoFiles == [table |-> <<>>, list |-> <<>>, failed |-> <<>>, errors |-> <<>>]

\* a first run without a checkpoint file, any lookup result on any attempt
Init ==
    /\ tickers \in SeqsUpTo(Symbols, MaxTickers)
    /\ max_retries \in 0..MaxRetries
    /\ checkpoint_interval \in 1..MaxInterval
    /\ source = [s \in Symbols |-> Anything]
    /\ checkpoint_file = [exists |-> FALSE, rows |-> <<>>]
    /\ pc = "start"
    /\ Entry
    /\ rerun = FALSE
    /\ prev = NoPrev
    /\ CleanerIdle
    /\ files = NoFiles

Range(list) == {list[i] : i \in 1..Len(list)}

\* a first run without a checkpoint file over a deterministic stub
InitResume ==
    /\ tickers \in SeqsUpTo(Symbols, MaxResumed)
    /\ max_retries \in 1..MaxRetries
    /\ checkpoint_interval \in 1..MaxInterval
    /\ source \in [Symbols -> StubResults]
    /\ \A s \in Symbols \ Range(tickers) : source[s] = [kind |-> "HTTP404"]
    /\ checkpoint_file = [exists |-> FALSE, rows |-> <<>>]
    /\ pc = "start"
    /\ Entry
    /\ rerun = FALSE
    /\ prev = NoPrev
    /\ CleanerIdle
    /\ files = NoFiles

\* filter_by_basic_criteria is not under way
FilterIdle ==
    /\ tickers = <<>>
    /\ max_retries = 0
    /\ checkpoint_interval = 1
    /\ source = [s \in Symbols |-> Anything]
    /\ checkpoint_file = [exists |-> FALSE, rows |-> <<>>]
    /\ Entry
    /\ rerun = FALSE
    /\ prev = NoPrev

\* a call of clean_ticker_list: one raw symbol of any shape, or a list of
\* the symbols of ListSymbols
InitClean ==
    /\ all_tickers \in {<<s>> : s \in RawSymbols} \cup SeqsUpTo(ListSymbols, MaxRaw)
    /\ CleanEntry
    /\ pc = "clean"
    /\ FilterIdle
    /\ files = NoFiles

\* ------------------------------------------------------------ actions
\* a faulty loop: the test for ^ and ~ counts the symbol and goes on to the
\* other tests
CleanTickerFallsThrough ==
    /\ pc = "clean"
    /\ ci < Len(all_tickers)
    /\ LET stripped == strip(all_tickers[ci + 1])
           ticker_upper == upper(stripped)
           counted == IF IsOther(stripped)
                      THEN [excluded_count EXCEPT !.other = @ + 1]
                      ELSE excluded_count
           category == IF IsWarrant(ticker_upper) THEN "warrants"
                       ELSE IF IsUnit(ticker_upper) THEN "units"
                       ELSE IF IsPreferred(ticker_upper) THEN "preferred"
                       ELSE IF IsRights(stripped, ticker_upper) THEN "rights"
                       ELSE "none"
       IN  IF category = "none"
           THEN /\ clean_tickers' = Append(clean_tickers, stripped)
                /\ excluded_count' = counted
           ELSE /\ excluded_count' = [counted EXCEPT ![category] = @ + 1]
                /\ UNCHANGED clean_tickers
    /\ ci' = ci + 1
    /\ UNCHANGED <<pc, filter, files, all_tickers, stdout, clean_return>>

\* lines 22-51: one iteration of the loop of clean_ticker_list
CleanTicker ==
    /\ pc = "clean"
    /\ ci < Len(all_tickers)
    /\ LET stripped == strip(all_tickers[ci + 1])
           category == Exclusion(stripped)
       IN  IF category = "none"
           THEN /\ clean_tickers' = Append(clean_tickers, stripped)
                /\ UNCHANGED excluded_count
           ELSE /\ excluded_count' = [excluded_count EXCEPT ![category] = @ + 1]
                /\ UNCHANGED clean_tickers
    /\ ci' = ci + 1
    /\ UNCHANGED <<pc, filter, files, all_tickers, stdout, clean_return>>

\* a faulty end: the counts are returned with the list and not printed
ReturnCleanWithCounts ==
    /\ pc = "clean"
    /\ ci >= Len(all_tickers)
    /\ clean_return' = <<clean_tickers, excluded_count>>
    /\ pc' = "cleaned"
    /\ UNCHANGED <<filter, files, all_tickers, ci, clean_tickers, excluded_count, stdout>>

\* lines 53-62: the counts are printed, the list of kept symbols is returned
ReturnClean ==
    /\ pc = "clean"
    /\ ci >= Len(all_tickers)
    /\ stdout' = <<excluded_count>>
    /\ clean_return' = <<clean_tickers>>
    /\ pc' = "cleaned"
    /\ UNCHANGED <<filter, files, all_tickers, ci, clean_tickers, excluded_count>>

NextClean == CleanTicker \/ ReturnClean

\* the orders a list of n records can be put in
Orders(n) == {f \in [1..n -> 1..n] : \A i, j \in 1..n : f[i] = f[j] => i = j}

\* a faulty sort: smallest market cap first
sort_values_ascending(records) ==
    { [i \in 1..Len(records) |-> records[f[i]]] : f \in
        {g \in Orders(Len(records)) :
            \A i, j \in 1..Len(records) :
                i < j => records[g[i]].market_cap <= records[g[j]].market_cap} }

\* line 265: df.sort_values('market_cap', ascending=False).  The default sort
\* is not stable, so records of equal market cap can come out in any order.
sort_values(records) ==
    { [i \in 1..Len(records) |-> records[f[i]]] : f \in
        {g \in Orders(Len(records)) :
            \A i, j \in 1..Len(records) :
                i < j => records[g[i]].market_cap >= records[g[j]].market_cap} }

\* lines 403-409: the classes with symbols, in the order of the dictionary
ErrorOrder == <<"rate_limit", "not_found", "timeout", "network_error", "other_error">>
ErrorReport(details) ==
    SelectSeq([i \in 1..Len(ErrorOrder) |->
                  [class |-> ErrorOrder[i], tickers |-> details[ErrorOrder[i]]]],
              LAMBDA entry : entry.tickers # <<>>)

\* lines 385-416 of __main__, with save_filtered_tickers (lines 259-288):
\* everything is written inside `if viable_tickers:`
SaveResults ==
    /\ pc = "done"
    /\ IF viable_tickers # <<>>
       THEN \E df \in sort_values(viable_tickers) :
              files' = [table  |-> <<to_csv(df)>>,
                        list   |-> <<[i \in 1..Len(df) |-> df[i].ticker]>>,
                        failed |-> IF failed_tickers # <<>>
                                   THEN <<failed_tickers>> ELSE <<>>,
                        errors |-> IF \E k \in ErrorKeys : error_details[k] # <<>>
                                   THEN <<ErrorReport(error_details)>> ELSE <<>>]
       ELSE files' = files
    /\ pc' = "saved"
    /\ UNCHANGED <<filter, cleaner>>

\* a faulty resume: the records are loaded but the list is not sliced
StartIndexZero(records) == 0

\* a faulty offset: the last symbol before the offset is processed again
StartIndexOneLess(records) == IF Len(records) > 0 THEN Len(records) - 1 ELSE 0

\* line 103: the resume offset is the number of records read
StartIndex(records) == Len(records)

\* lines 96-106: load the checkpoint when the file exists
LoadCheckpoint ==
    /\ pc = "start"
    /\ IF checkpoint_file.exists
       THEN /\ viable_tickers' = read_csv(checkpoint_file.rows)
            /\ start_index' = StartIndex(read_csv(checkpoint_file.rows))
       ELSE UNCHANGED <<viable_tickers, start_index>>
    /\ pc' = "for"
    /\ UNCHANGED <<params, cleaner, files, checkpoint_file, failed_tickers, filtered_out,
                   error_details, idx, attempt, success, last_error, info,
                   sleeps, fetched, outcome, write_failed, history>>

\* lines 108-110: the next symbol of tickers[start_index:]
NextTicker ==
    /\ pc = "for"
    /\ idx < Len(Slice(tickers, start_index))
    /\ success' = FALSE
    /\ last_error' = "None"
    /\ attempt' = 0
    /\ sleeps' = <<>>
    /\ pc' = "retry"
    /\ UNCHANGED <<params, cleaner, files, checkpoint_file, viable_tickers, failed_tickers,
                   filtered_out, error_details, start_index, idx, info,
                   fetched, outcome, write_failed, history>>

\* lines 221-236: the slice is exhausted, the function returns
Return ==
    /\ pc = "for"
    /\ idx >= Len(Slice(tickers, start_index))
    /\ pc' = "done"
    /\ UNCHANGED <<params, cleaner, files, checkpoint_file, viable_tickers, failed_tickers,
                   filtered_out, error_details, start_index, idx, attempt,
                   success, last_error, info, sleeps, fetched, outcome,
                   write_failed, history>>

\* lines 113-160: an attempt whose lookup returns an info record
FetchData ==
    /\ pc = "retry"
    /\ attempt < max_retries
    /\ \E r \in Lookup(source[ticker]) :
         /\ r.kind = "data"
         /\ LET verdict == Evaluate(r.market_cap, r.price, r.volume) IN
            /\ info' = r
            /\ filtered_out' =
                   IF verdict = "viable" THEN filtered_out
                   ELSE [filtered_out EXCEPT ![verdict] = @ + 1]
            /\ failed_tickers' =
                   IF verdict = "no_data" THEN Append(failed_tickers, ticker)
                   ELSE failed_tickers
            /\ viable_tickers' =
                   IF verdict = "viable"
                   THEN Append(viable_tickers,
                               Snapshot(ticker, r.market_cap, r.price, r.volume,
                                        r.sector, r.industry))
                   ELSE viable_tickers
            /\ outcome' = [outcome EXCEPT ![cur] = verdict]
    /\ success' = TRUE
    /\ fetched' = fetched \cup {cur}
    /\ pc' = "after_retry"
    /\ UNCHANGED <<params, cleaner, files, checkpoint_file, error_details, start_index, idx,
                   attempt, last_error, sleeps, write_failed, history>>

\* what the except clause leaves in last_error (lines 163, 180, 185, 190)
LastError(error) == IF error = "TimeoutException" THEN TimeoutLastError ELSE error

\* a faulty handler: the 404 falls into the branch of the other HTTP errors
\* and is retried after a backoff
FetchNotFoundRetried ==
    /\ pc = "retry"
    /\ attempt < max_retries
    /\ [kind |-> "HTTP404"] \in Lookup(source[ticker])
    /\ info' = [kind |-> "HTTP404"]
    /\ last_error' = LastError("HTTP404")
    /\ sleeps' = Append(sleeps, [kind |-> "backoff",
                                 time |-> Backoff("HTTP404", attempt)])
    /\ fetched' = fetched \cup {cur}
    /\ attempt' = attempt + 1
    /\ UNCHANGED <<params, cleaner, files, checkpoint_file, pc, viable_tickers, failed_tickers,
                   filtered_out, error_details, start_index, idx, success,
                   outcome, write_failed, history>>

\* lines 169-173: HTTP 404, not retried
FetchNotFound ==
    /\ pc = "retry"
    /\ attempt < max_retries
    /\ [kind |-> "HTTP404"] \in Lookup(source[ticker])
    /\ info' = [kind |-> "HTTP404"]
    /\ last_error' = LastError("HTTP404")
    /\ error_details' = [error_details EXCEPT !.not_found = Append(@, ticker)]
    /\ success' = TRUE
    /\ outcome' = [outcome EXCEPT ![cur] = "not_found"]
    /\ fetched' = fetched \cup {cur}
    /\ pc' = "after_retry"
    /\ UNCHANGED <<params, cleaner, files, checkpoint_file, viable_tickers, failed_tickers,
                   filtered_out, start_index, idx, attempt, sleeps,
                   write_failed, history>>

\* a faulty loop: one attempt more than max_retries is made
FetchTransientOnceMore ==
    /\ pc = "retry"
    /\ attempt <= max_retries
    /\ \E r \in Lookup(source[ticker]) :
         /\ r.kind \in Transient
         /\ info' = r
         /\ last_error' = LastError(r.kind)
         /\ sleeps' = Append(sleeps, [kind |-> "backoff",
                                      time |-> Backoff(r.kind, attempt)])
    /\ fetched' = fetched \cup {cur}
    /\ attempt' = attempt + 1
    /\ UNCHANGED <<params, cleaner, files, checkpoint_file, pc, viable_tickers, failed_tickers,
                   filtered_out, error_details, start_index, idx, success,
                   outcome, write_failed, history>>

\* a faulty handler: the base delay is slept after the backoff of every
\* failed attempt
FetchTransientThenDelay ==
    /\ pc = "retry"
    /\ attempt < max_retries
    /\ \E r \in Lookup(source[ticker]) :
         /\ r.kind \in Transient
         /\ info' = r
         /\ last_error' = LastError(r.kind)
         /\ sleeps' = sleeps \o <<[kind |-> "backoff", time |-> Backoff(r.kind, attempt)],
                                  [kind |-> "base", time |-> base_delay]>>
    /\ fetched' = fetched \cup {cur}
    /\ attempt' = attempt + 1
    /\ UNCHANGED <<params, cleaner, files, checkpoint_file, pc, viable_tickers, failed_tickers,
                   filtered_out, error_details, start_index, idx, success,
                   outcome, write_failed, history>>

\* lines 162-168, 174-192: an error that is retried after a backoff sleep
FetchTransient ==
    /\ pc = "retry"
    /\ attempt < max_retries
    /\ \E r \in Lookup(source[ticker]) :
         /\ r.kind \in Transient
         /\ info' = r
         /\ last_error' = LastError(r.kind)
         /\ sleeps' = Append(sleeps, [kind |-> "backoff",
                                      time |-> Backoff(r.kind, attempt)])
    /\ fetched' = fetched \cup {cur}
    /\ attempt' = attempt + 1
    /\ UNCHANGED <<params, cleaner, files, checkpoint_file, pc, viable_tickers, failed_tickers,
                   filtered_out, error_details, start_index, idx, success,
                   outcome, write_failed, history>>

\* lines 162-164: an HTTPError without a response.  hasattr(e, 'response')
\* is true, e.response is None, and e.response.status_code raises
\* AttributeError inside the except clause: no clause of the same try catches
\* it, and the function is left by the exception.
FetchRaises ==
    /\ pc = "retry"
    /\ attempt < max_retries
    /\ [kind |-> "HTTPNoResponse"] \in Lookup(source[ticker])
    /\ info' = [kind |-> "HTTPNoResponse"]
    /\ last_error' = LastError("HTTPNoResponse")
    /\ fetched' = fetched \cup {cur}
    /\ pc' = "raised"
    /\ UNCHANGED <<params, cleaner, files, checkpoint_file, viable_tickers, failed_tickers,
                   filtered_out, error_details, start_index, idx, attempt,
                   success, sleeps, outcome, write_failed, history>>

\* line 113: range(max_retries) is exhausted without a break
RetriesExhausted ==
    /\ pc = "retry"
    /\ attempt >= max_retries
    /\ pc' = "after_retry"
    /\ UNCHANGED <<params, cleaner, files, checkpoint_file, viable_tickers, failed_tickers,
                   filtered_out, error_details, start_index, idx, attempt,
                   success, last_error, info, sleeps, fetched, outcome,
                   write_failed, history>>

\* a faulty categorisation: a symbol is failed when any attempt of it raised
\* an error, although a later attempt succeeded
CategorizeAfterAnyError ==
    /\ pc = "after_retry"
    /\ IF last_error # "None"
       THEN /\ failed_tickers' = Append(failed_tickers, ticker)
            /\ filtered_out' = [filtered_out EXCEPT !.no_data = @ + 1]
            /\ error_details' =
                   [error_details EXCEPT ![ErrorClass(last_error)] = Append(@, ticker)]
            /\ outcome' = [outcome EXCEPT ![cur] = "failed"]
       ELSE UNCHANGED <<failed_tickers, filtered_out, error_details, outcome>>
    /\ attempt' = 0
    /\ success' = FALSE
    /\ last_error' = "None"
    /\ info' = NoInfo
    /\ pc' = "checkpoint"
    /\ UNCHANGED <<params, cleaner, files, checkpoint_file, viable_tickers, start_index, idx,
                   sleeps, fetched, write_failed, history>>

\* a faulty categorisation: the failed symbol is not counted as no_data
CategorizeUncounted ==
    /\ pc = "after_retry"
    /\ IF ~success
       THEN /\ failed_tickers' = Append(failed_tickers, ticker)
            /\ error_details' =
                   [error_details EXCEPT ![ErrorClass(last_error)] = Append(@, ticker)]
            /\ outcome' = [outcome EXCEPT ![cur] = "failed"]
            /\ UNCHANGED filtered_out
       ELSE UNCHANGED <<failed_tickers, filtered_out, error_details, outcome>>
    /\ attempt' = 0
    /\ success' = FALSE
    /\ last_error' = "None"
    /\ info' = NoInfo
    /\ pc' = "checkpoint"
    /\ UNCHANGED <<params, cleaner, files, checkpoint_file, viable_tickers, start_index, idx,
                   sleeps, fetched, write_failed, history>>

\* lines 194-209: a symbol that never succeeded is failed and classified.
\* attempt, success, last_error and the fetched values are dead from here on
\* (lines 109-121 assign them again before any read), so they are put back
\* to their entry values.
Categorize ==
    /\ pc = "after_retry"
    /\ IF ~success
       THEN /\ failed_tickers' = Append(failed_tickers, ticker)
            /\ filtered_out' = [filtered_out EXCEPT !.no_data = @ + 1]
            /\ error_details' =
                   [error_details EXCEPT ![ErrorClass(last_error)] = Append(@, ticker)]
            /\ outcome' = [outcome EXCEPT ![cur] = "failed"]
       ELSE UNCHANGED <<failed_tickers, filtered_out, error_details, outcome>>
    /\ attempt' = 0
    /\ success' = FALSE
    /\ last_error' = "None"
    /\ info' = NoInfo
    /\ pc' = "checkpoint"
    /\ UNCHANGED <<params, cleaner, files, checkpoint_file, viable_tickers, start_index, idx,
                   sleeps, fetched, write_failed, history>>

\* line 212: is a checkpoint write due in this iteration
CheckpointDue == (idx + 1) % checkpoint_interval = 0 /\ viable_tickers # <<>>

\* a faulty write: only the records accepted by this run are written
WriteCheckpointNewOnly ==
    /\ pc = "checkpoint"
    /\ CheckpointDue
    /\ checkpoint_file' =
          [exists |-> TRUE,
           rows |-> to_csv(SubSeq(viable_tickers, start_index + 1, Len(viable_tickers)))]
    /\ write_failed' = FALSE
    /\ pc' = "delay"
    /\ UNCHANGED <<params, cleaner, files, viable_tickers, failed_tickers, filtered_out,
                   error_details, start_index, idx, attempt, success,
                   last_error, info, sleeps, fetched, outcome, history>>

\* a faulty write: the list is appended to the rows already in the file
WriteCheckpointAppends ==
    /\ pc = "checkpoint"
    /\ CheckpointDue
    /\ checkpoint_file' = [exists |-> TRUE,
                           rows |-> checkpoint_file.rows \o to_csv(viable_tickers)]
    /\ write_failed' = FALSE
    /\ pc' = "delay"
    /\ UNCHANGED <<params, cleaner, files, viable_tickers, failed_tickers, filtered_out,
                   error_details, start_index, idx, attempt, success,
                   last_error, info, sleeps, fetched, outcome, history>>

\* lines 212-214: the accepted list is written over the checkpoint file
WriteCheckpoint ==
    /\ pc = "checkpoint"
    /\ CheckpointDue
    /\ checkpoint_file' = [exists |-> TRUE, rows |-> to_csv(viable_tickers)]
    /\ write_failed' = FALSE
    /\ pc' = "delay"
    /\ UNCHANGED <<params, cleaner, files, viable_tickers, failed_tickers, filtered_out,
                   error_details, start_index, idx, attempt, success,
                   last_error, info, sleeps, fetched, outcome, history>>

\* a faulty handler: the exception of the write is not caught and ends the loop
WriteCheckpointRaises ==
    /\ pc = "checkpoint"
    /\ CheckpointDue
    /\ write_failed' = TRUE
    /\ lost_writes' = TRUE
    /\ pc' = "done"
    /\ UNCHANGED <<params, cleaner, files, checkpoint_file, viable_tickers, failed_tickers,
                   filtered_out, error_details, start_index, idx, attempt,
                   success, last_error, info, sleeps, fetched, outcome, rerun, prev>>

\* lines 215-216: the write raises and the exception is swallowed
WriteCheckpointFails ==
    /\ pc = "checkpoint"
    /\ CheckpointDue
    /\ write_failed' = TRUE
    /\ lost_writes' = TRUE
    /\ pc' = "delay"
    /\ UNCHANGED <<params, cleaner, files, checkpoint_file, viable_tickers, failed_tickers,
                   filtered_out, error_details, start_index, idx, attempt,
                   success, last_error, info, sleeps, fetched, outcome, rerun, prev>>

\* line 212: no write is due
SkipCheckpoint ==
    /\ pc = "checkpoint"
    /\ ~CheckpointDue
    /\ pc' = "delay"
    /\ UNCHANGED <<params, cleaner, files, checkpoint_file, viable_tickers, failed_tickers,
                   filtered_out, error_details, start_index, idx, attempt,
                   success, last_error, info, sleeps, fetched, outcome,
                   write_failed, history>>

\* lines 218-219: the normal delay, then the next iteration
Delay ==
    /\ pc = "delay"
    /\ sleeps' = Append(sleeps, [kind |-> "base", time |-> base_delay])
    /\ idx' = idx + 1
    /\ write_failed' = FALSE
    /\ pc' = "for"
    /\ UNCHANGED <<params, cleaner, files, checkpoint_file, viable_tickers, failed_tickers,
                   filtered_out, error_details, start_index, attempt, success,
                   last_error, info, fetched, outcome, history>>

\* the function is entered again on the same input list (lines 65-98); the
\* checkpoint file is all that is left of the earlier run
Again(interrupted) ==
    /\ ~rerun
    /\ rerun' = TRUE
    /\ prev' = [interrupted |-> interrupted, flushed |-> checkpoint_file.exists,
                lost |-> lost_writes, left |-> checkpoint_file.rows,
                start |-> start_index, done |-> idx,
                returned |-> IF interrupted THEN NoReturn
                             ELSE Returned(viable_tickers, failed_tickers,
                                           filtered_out, error_details)]
    /\ pc' = "start"
    /\ viable_tickers' = <<>>
    /\ failed_tickers' = <<>>
    /\ filtered_out' = ZeroCounts
    /\ error_details' = EmptyErrors
    /\ start_index' = 0
    /\ idx' = 0
    /\ attempt' = 0
    /\ success' = FALSE
    /\ last_error' = "None"
    /\ info' = NoInfo
    /\ sleeps' = <<>>
    /\ write_failed' = FALSE
    /\ lost_writes' = FALSE
    /\ fetched' = {}
    /\ outcome' = [p \in Offsets |-> "pending"]
    /\ UNCHANGED <<params, cleaner, files, checkpoint_file>>

\* the process is terminated in the middle of a run and started again
Interrupt == pc \notin {"start", "done"} /\ Again(TRUE)

\* the function is called again after it returned
CallAgain == pc = "done" /\ Again(FALSE)

NextRun ==
    \/ LoadCheckpoint
    \/ NextTicker
    \/ Return
    \/ FetchData
    \/ FetchNotFound
    \/ FetchTransient
    \/ FetchRaises
    \/ RetriesExhausted
    \/ Categorize
    \/ WriteCheckpoint
    \/ WriteCheckpointFails
    \/ SkipCheckpoint
    \/ Delay

Next == NextRun \/ Interrupt \/ CallAgain

\* the filter and the saving of its results
NextMain == NextRun \/ SaveResults

\* one run of the function
Spec == Init /\ [][NextRun]_vars

\* one run of the function that is not stopped from outside: the interpreter
\* goes on to the next statement as long as there is one
SpecFair == Init /\ [][NextRun]_vars /\ WF_vars(NextRun)

\* the pipeline from the call of filter_by_basic_criteria to its end
SpecMain == Init /\ [][NextMain]_vars

\* a call of clean_ticker_list
SpecClean == InitClean /\ [][NextClean]_vars

\* a run over a deterministic stub, ended or interrupted, and its rerun
SpecResume == InitResume /\ [][Next]_vars

\* ================================================================ claims
\* a step of the retry loop that makes a lookup, and what the lookup produced
LookupStep == pc = "retry" /\ attempt < max_retries /\ pc' \in {"retry", "after_retry"}
DataStep == LookupStep /\ info'.kind = "data"
NotFoundStep == LookupStep /\ info'.kind = "HTTP404"
\* the retry loop is left by a break
Break == pc' = "after_retry" /\ success' /\ attempt' = attempt
\* a value that is known and under its minimum
Under(value, min) == value # 0 /\ value < min
AllZero(r) == r.market_cap = 0 /\ r.price = 0 /\ r.volume = 0
Rejected(reason) ==
    /\ filtered_out' = [filtered_out EXCEPT ![reason] = @ + 1]
    /\ UNCHANGED <<viable_tickers, failed_tickers, error_details>>
Accepted(r) ==
    /\ viable_tickers' = Append(viable_tickers,
                                [ticker |-> ticker, market_cap |-> r.market_cap,
                                 price |-> r.price, volume |-> r.volume,
                                 sector |-> r.sector, industry |-> r.industry])
    /\ UNCHANGED <<filtered_out, failed_tickers, error_details>>
Count(list, x) == Cardinality({i \in 1..Len(list) : list[i] = x})

\* C1: a lookup that returns usable data is judged in the order market_cap,
\* price, volume: the symbol is rejected under the first value that is under
\* its minimum, counted under that reason only, and the retry loop is left;
\* if no value rejects, the snapshot is appended to the accepted list.
C1_FixedOrder ==
    [][ (DataStep /\ ~AllZero(info')) =>
          /\ Break
          /\ IF Under(info'.market_cap, min_market_cap) THEN Rejected("market_cap")
             ELSE IF Under(info'.price, min_price) THEN Rejected("price")
             ELSE IF Under(info'.volume, min_volume) THEN Rejected("volume")
             ELSE Accepted(info') ]_vars

\* C1 witness: market cap passes, price and volume are both under their
\* minimum, and the symbol is counted under price alone
C1_Witness ==
    /\ pc = "after_retry" /\ info.kind = "data"
    /\ info.market_cap = min_market_cap
    /\ info.price = min_price - 1 /\ info.volume = min_volume - 1
    /\ filtered_out.price = 1 /\ filtered_out.volume = 0 /\ filtered_out.market_cap = 0

\* the error class the claim gives to the last error of a symbol
ClaimedClass(error) ==
    CASE error = "HTTP429" -> "rate_limit"
      [] error = "TimeoutException" -> "timeout"
      [] error = "RequestException" -> "network_error"
      [] OTHER -> "other_error"

\* C2: a symbol whose max_retries (>= 1) attempts all failed with a
\* transient error is appended to the failed list once and filed under the
\* class of the last error: 429 -> rate_limit, timeout -> timeout, other
\* network error -> network_error, anything else -> other_error.
C2_ClassOfLastError ==
    [][ (pc = "after_retry" /\ pc' = "checkpoint" /\ ~success /\ max_retries >= 1) =>
          /\ failed_tickers' = Append(failed_tickers, ticker)
          /\ error_details' =
                [error_details EXCEPT ![ClaimedClass(info.kind)] = Append(@, ticker)] ]_vars

\* C3: a 404 ends the symbol at once, on any attempt: the retry loop is
\* left without a backoff sleep, the symbol is filed under not_found, and no
\* further lookup is made for it.
C3_NotFoundIsTerminal ==
    /\ [][ NotFoundStep =>
             /\ Break
             /\ sleeps' = sleeps
             /\ error_details' =
                   [error_details EXCEPT !.not_found = Append(@, ticker)] ]_vars
    /\ [](\A p \in Offsets : outcome[p] = "not_found" => ~(pc = "retry" /\ cur = p))
    /\ [][ (pc = "after_retry" /\ outcome[cur] = "not_found") =>
             UNCHANGED error_details ]_vars

\* C3 witness: a 404 on a later attempt, after a transient error and its backoff
C3_Witness ==
    /\ pc = "after_retry" /\ outcome[cur] = "not_found"
    /\ Len(sleeps) = 1 /\ sleeps[1].kind = "backoff"
    /\ Count(error_details.not_found, ticker) = 1

\* C4: at return every symbol listed in an error class, not_found included,
\* is in the failed list too.
C4_ErrorsAreFailed ==
    pc = "done" =>
        \A k \in ErrorKeys : Range(error_details[k]) \subseteq Range(failed_tickers)

\* C5: a lookup that returns zero for market_cap, price and volume makes the
\* symbol no_data: the retry loop is left without a backoff sleep, the symbol
\* goes to the failed list, is not accepted, enters no error class, and no
\* further lookup is made for it.
C5_NoDataIsTerminal ==
    /\ [][ (DataStep /\ AllZero(info')) =>
             /\ Break
             /\ sleeps' = sleeps
             /\ failed_tickers' = Append(failed_tickers, ticker)
             /\ filtered_out' = [filtered_out EXCEPT !.no_data = @ + 1]
             /\ UNCHANGED <<viable_tickers, error_details>> ]_vars
    /\ [](\A p \in Offsets : outcome[p] = "no_data" => ~(pc = "retry" /\ cur = p))
    /\ [][ (pc = "after_retry" /\ outcome[cur] = "no_data") =>
             UNCHANGED <<error_details, failed_tickers, viable_tickers>> ]_vars

\* C5 witness: an all-zero answer on a later attempt, the symbol failed once
C5_Witness ==
    /\ pc = "checkpoint" /\ outcome[cur] = "no_data"
    /\ Len(sleeps) = 1
    /\ failed_tickers = <<ticker>> /\ viable_tickers = <<>>
    /\ error_details = EmptyErrors

\* C6: the threshold predicates are strict and skip zero: a value equal to
\* its minimum or equal to zero never rejects for its field, and a symbol
\* with market_cap 0 is judged by price and volume, or is no_data when all
\* three values are zero.
C6_StrictAndSkipZero ==
    [][ DataStep =>
          /\ info'.market_cap \in {0, min_market_cap} =>
                filtered_out'.market_cap = filtered_out.market_cap
          /\ info'.price \in {0, min_price} => filtered_out'.price = filtered_out.price
          /\ info'.volume \in {0, min_volume} => filtered_out'.volume = filtered_out.volume
          /\ info'.market_cap = 0 =>
                IF AllZero(info') THEN filtered_out'.no_data = filtered_out.no_data + 1
                ELSE IF Under(info'.price, min_price) THEN Rejected("price")
                ELSE IF Under(info'.volume, min_volume) THEN Rejected("volume")
                ELSE Accepted(info') ]_vars

\* C6 witness: market cap unknown, price and volume at their minimum, accepted
C6_Witness ==
    /\ pc = "after_retry" /\ info.kind = "data"
    /\ info.market_cap = 0 /\ info.price = min_price /\ info.volume = min_volume
    /\ outcome[cur] = "viable"
    /\ Len(viable_tickers) = 1 /\ viable_tickers[1].market_cap = 0

\* ------------------------------------------- a run and its rerun (SpecResume)
\* what the stub makes of a symbol, whatever the checkpoint does
StubVerdict(s) ==
    LET r == source[s] IN
    IF r.kind = "HTTP404" THEN "not_found"
    ELSE IF r.kind # "data" THEN "failed"
    ELSE IF AllZero(r) THEN "no_data"
    ELSE IF Under(r.market_cap, min_market_cap) THEN "market_cap"
    ELSE IF Under(r.price, min_price) THEN "price"
    ELSE IF Under(r.volume, min_volume) THEN "volume"
    ELSE "viable"
StubRecord(s) ==
    LET r == source[s] IN
    [ticker |-> s, market_cap |-> r.market_cap, price |-> r.price,
     volume |-> r.volume, sector |-> r.sector, industry |-> r.industry]
StubClass(s) ==
    IF StubVerdict(s) = "not_found" THEN "not_found"
    ELSE IF StubVerdict(s) = "failed" THEN ErrorClass(LastError(source[s].kind))
    ELSE "none"

\* the records the symbols at offsets from..to-1 add to the accepted list
RECURSIVE NewlyAccepted(_, _)
NewlyAccepted(from, to) ==
    IF from >= to THEN <<>>
    ELSE (IF StubVerdict(tickers[from + 1]) = "viable"
          THEN <<StubRecord(tickers[from + 1])>> ELSE <<>>) \o NewlyAccepted(from + 1, to)
\* the symbols at offsets from..to-1 that go to the failed list
RECURSIVE NewlyFailed(_, _)
NewlyFailed(from, to) ==
    IF from >= to THEN <<>>
    ELSE (IF StubVerdict(tickers[from + 1]) \in {"failed", "no_data"}
          THEN <<tickers[from + 1]>> ELSE <<>>) \o NewlyFailed(from + 1, to)
\* the symbols at offsets from..to-1 that go to error class k
RECURSIVE NewlyIn(_, _, _)
NewlyIn(k, from, to) ==
    IF from >= to THEN <<>>
    ELSE (IF StubClass(tickers[from + 1]) = k
          THEN <<tickers[from + 1]>> ELSE <<>>) \o NewlyIn(k, from + 1, to)

\* the checkpoint this run started with: its records as read, and their number
Loaded == IF rerun /\ prev.flushed THEN read_csv(prev.left) ELSE <<>>
\* the offsets this run has to process, and the one after the last of them
FirstOffset == Len(Loaded)
EndOffset == Len(tickers)

\* C7: a run that starts with a checkpoint of k records looks up exactly the
\* symbols of input[k:], none of input[:k], and its accepted list is the k
\* checkpoint records in their order followed by the newly accepted records
\* in input order.
C7_ResumeFromCheckpoint ==
    (rerun /\ prev.flushed /\ pc # "start") =>
        LET k == FirstOffset IN
        /\ fetched \subseteq {p \in Offsets : p >= k}
        /\ Len(viable_tickers) >= k
        /\ SubSeq(viable_tickers, 1, k) = Loaded
        /\ pc \in {"for", "done"} =>
              /\ fetched = {p \in Offsets : k <= p /\ p < k + idx}
              /\ viable_tickers = Loaded \o NewlyAccepted(k, k + idx)
        /\ pc = "done" =>
              /\ fetched = {p \in Offsets : p >= k}
              /\ viable_tickers = Loaded \o NewlyAccepted(k, EndOffset)

\* C7 witness: a rerun that started with one record, skipped the first
\* symbol, looked up the other two and accepted one more
C7_Witness ==
    /\ rerun /\ prev.flushed /\ pc = "done"
    /\ Len(prev.left) = 1 /\ Len(tickers) = 3
    /\ fetched = {1, 2}
    /\ Len(viable_tickers) = 2

\* C8: a run interrupted after a checkpoint write (no write of it failed)
\* and run again resumes at the offset of the last write: of the symbols the
\* interrupted run had finished, the rerun looks up at most
\* checkpoint_interval - 1 again.
C8_RedoneFetchesBounded ==
    (rerun /\ prev.interrupted /\ prev.flushed /\ ~prev.lost /\ pc = "done") =>
        Cardinality({p \in fetched : prev.start <= p /\ p < prev.start + prev.done})
            <= checkpoint_interval - 1

\* the rows of the accepted list, as the file holds them
RowsOf(records) ==
    [i \in 1..Len(records) |->
        [records[i] EXCEPT !.ticker = IF @ = NaN THEN "" ELSE @,
                           !.sector = IF @ = NaN THEN "" ELSE @,
                           !.industry = IF @ = NaN THEN "" ELSE @]]

\* C9 as stated: after every checkpoint_interval processed symbols the
\* accepted list is written, and right after it the checkpoint holds exactly
\* the accepted list.
C9_FlushEveryInterval ==
    [][ (pc = "checkpoint" /\ pc' = "delay" /\ (idx + 1) % checkpoint_interval = 0
         /\ ~write_failed') =>
          /\ checkpoint_file'.exists
          /\ checkpoint_file'.rows = RowsOf(viable_tickers) ]_vars

\* C9 amended: after every checkpoint_interval processed symbols of the run,
\* if the accepted list is not empty and the write does not fail, the
\* checkpoint is rewritten wholesale and holds exactly the accepted list
\* (loaded records and newly accepted ones); in every other iteration the
\* checkpoint is left as it is.
C9_FlushWhenNotEmpty ==
    [][ (pc = "checkpoint" /\ pc' = "delay") =>
          IF (idx + 1) % checkpoint_interval = 0 /\ viable_tickers # <<>> /\ ~write_failed'
          THEN /\ checkpoint_file'.exists
               /\ checkpoint_file'.rows = RowsOf(viable_tickers)
               /\ viable_tickers' = viable_tickers
          ELSE checkpoint_file' = checkpoint_file ]_vars

\* C9 witness: a rerun that loaded one record, accepted another and has just
\* written both over the one-row checkpoint
C9_Witness ==
    /\ rerun /\ pc = "delay" /\ ~write_failed
    /\ (idx + 1) % checkpoint_interval = 0
    /\ start_index = 1 /\ Len(viable_tickers) = 2
    /\ Len(prev.left) = 1
    /\ checkpoint_file.rows = RowsOf(viable_tickers)

\* C10: a checkpoint write that fails changes none of the accepted list, the
\* failed list, the rejection counts and the error breakdown, the loop goes
\* on with the delay and the next symbol, and what the function returns is
\* what the stub's answers alone determine, the same as with every write
\* succeeding.
C10_WriteFailureSwallowed ==
    /\ [][ (pc = "checkpoint" /\ write_failed') =>
             /\ pc' = "delay"
             /\ UNCHANGED <<viable_tickers, failed_tickers, filtered_out,
                            error_details, idx, start_index, checkpoint_file>> ]_vars
    /\ [][ (pc = "delay" /\ write_failed /\ pc' # "start") =>
             /\ pc' = "for" /\ idx' = idx + 1
             /\ UNCHANGED <<viable_tickers, failed_tickers, filtered_out,
                            error_details>> ]_vars
    /\ [](pc = "done" =>
             /\ viable_tickers = Loaded \o NewlyAccepted(FirstOffset, EndOffset)
             /\ failed_tickers = NewlyFailed(FirstOffset, EndOffset)
             /\ \A k \in ErrorKeys :
                    error_details[k] = NewlyIn(k, FirstOffset, EndOffset))

\* C10 witness: a first run that returned two accepted records although
\* every one of its checkpoint writes failed
C10_Witness ==
    /\ ~rerun /\ pc = "done" /\ checkpoint_interval = 1
    /\ Len(viable_tickers) = 2
    /\ ~checkpoint_file.exists

\* C11: whatever the lookups produce, the function returns, and at the return
\* every symbol of the processed slice has a terminal outcome: no failure of
\* one symbol keeps the following symbols from being processed.
C11_EventuallyReturns ==
    /\ <>(pc = "done")
    /\ [](pc = "done" =>
             \A p \in Offsets : p >= start_index => outcome[p] # "pending")

\* C12: for a symbol whose every lookup is answered with HTTP 429 the backoff
\* sleeps are base_delay*3^0, base_delay*3^1, ... in this order, one per
\* attempt made, and max_retries of them when the retry loop is left.
C12_BackoffGrowth ==
    (pc \in {"retry", "after_retry"} /\ source[ticker].kind = "HTTP429") =>
        /\ sleeps = [i \in 1..attempt |->
                        [kind |-> "backoff", time |-> base_delay * 3^(i - 1)]]
        /\ pc = "after_retry" => (attempt = max_retries /\ ~success)

\* C12 witness: the largest max_retries, every attempt rate limited, the
\* last sleep base_delay*3^(max_retries-1)
C12_Witness ==
    /\ pc = "after_retry" /\ source[ticker].kind = "HTTP429"
    /\ max_retries = MaxRetries
    /\ Len(sleeps) = MaxRetries
    /\ sleeps[1].time = base_delay
    /\ sleeps[MaxRetries].time = base_delay * 3^(MaxRetries - 1)

\* the sleeps of the given kind in the log of the current symbol
SleepsOf(kind) == Cardinality({i \in 1..Len(sleeps) : sleeps[i].kind = kind})
\* the lookups made for the symbol whose iteration has just ended: every
\* failed attempt left one backoff sleep, and a symbol that did not end as
\* failed had one more attempt, the one that ended it
AttemptsMade == SleepsOf("backoff") + (IF outcome[cur - 1] = "failed" THEN 0 ELSE 1)

\* C13 as stated: a base_delay sleep follows every lookup attempt, the retry
\* attempts of a symbol included: when the iteration of a symbol has ended,
\* at least as many base sleeps were taken as lookups were made for it.
C13_BaseDelayAfterEveryAttempt ==
    (pc \in {"for", "done"} /\ idx > 0) => SleepsOf("base") >= AttemptsMade

\* C13 amended: the base_delay sleep is taken once per symbol of the
\* processed slice, as the last step of its iteration, whatever the outcome;
\* the attempts of a symbol are separated by the backoff sleeps alone.
C13_BaseDelayOncePerSymbol ==
    /\ pc \in {"retry", "after_retry", "checkpoint", "delay", "raised"} =>
          SleepsOf("base") = 0
    /\ (pc \in {"for", "done"} /\ idx > 0) =>
          /\ SleepsOf("base") = 1
          /\ sleeps[Len(sleeps)] = [kind |-> "base", time |-> base_delay]

\* C13 witness: a symbol that failed after two attempts: two backoff sleeps,
\* then the one base sleep
C13_Witness ==
    /\ pc = "for" /\ idx > 0 /\ outcome[cur - 1] = "failed"
    /\ Len(sleeps) = 3
    /\ sleeps[1].kind = "backoff" /\ sleeps[2].kind = "backoff"
    /\ sleeps[3].kind = "base"

\* the records as a reader of the table finds them (a missing cell and a
\* cell spelling NA are not told apart)
AsRead(records) == read_csv(to_csv(records))

\* C14: a run that starts without a checkpoint and returns, followed by a
\* second run on the same list over the same stub: the second run returns
\* the same accepted records, the same failed list, the same rejection
\* counts and the same error breakdown as the first.
C14_SecondRunIdentical ==
    (rerun /\ ~prev.interrupted /\ pc = "done") =>
        /\ AsRead(viable_tickers) = AsRead(prev.returned.viable)
        /\ failed_tickers = prev.returned.failed
        /\ filtered_out = prev.returned.counts
        /\ error_details = prev.returned.errors

\* ------------------------------------------------ clean_ticker_list (SpecClean)
\* the exclusion rules as the specification lists them, in their order, on
\* the trimmed and upper-cased symbol u
Rules == <<"other", "warrants", "units", "preferred", "rights">>
Applies(rule, u) ==
    CASE rule = "other" -> \E i \in 1..Len(u) : u[i] \in {"^", "~"}
      [] rule = "warrants" ->
            \/ endswith(u, <<"W">>) \/ endswith(u, <<"W", "S">>) \/ endswith(u, <<"W", "T">>)
      [] rule = "units" -> endswith(u, <<"U">>)
      [] rule = "preferred" -> contains(u, <<"-", "P", "R">>) \/ contains(u, <<"-", "P">>)
      [] rule = "rights" -> endswith(u, <<"R">>) /\ Len(u) > 4
\* the first rule that applies, "none" if no rule does
FirstRule(u) ==
    LET hits == {i \in 1..Len(Rules) : Applies(Rules[i], u)} IN
    IF hits = {} THEN "none"
    ELSE Rules[CHOOSE i \in hits : \A j \in hits : i <= j]
\* one iteration of the loop, and the symbol it handles, trimmed
CleanStep == pc = "clean" /\ ci' = ci + 1
Trimmed == strip(all_tickers[ci + 1])

\* C15: a symbol that some rule applies to is not kept, and it is counted once,
\* under the first rule that applies in the order other, warrants, units,
\* preferred, rights.
C15_ExcludedUnderFirstRule ==
    [][ (CleanStep /\ FirstRule(upper(Trimmed)) # "none") =>
          /\ clean_tickers' = clean_tickers
          /\ excluded_count' =
                [excluded_count EXCEPT ![FirstRule(upper(Trimmed))] = @ + 1] ]_vars

\* C15 witness: a symbol of more than 4 characters that contains -P and ends
\* with R, counted as preferred and not as rights
C15_Witness ==
    /\ pc = "clean" /\ ci = 1 /\ Len(all_tickers) = 1
    /\ LET u == upper(strip(all_tickers[1])) IN
          contains(u, <<"-", "P">>) /\ endswith(u, <<"R">>) /\ Len(u) > 4
    /\ excluded_count = [ZeroExcluded EXCEPT !.preferred = 1]

\* the input symbols, trimmed, that no rule applies to, in input order
RECURSIVE KeptOf(_)
KeptOf(list) ==
    IF list = <<>> THEN <<>>
    ELSE (IF FirstRule(upper(strip(Head(list)))) = "none"
          THEN <<strip(Head(list))>> ELSE <<>>) \o KeptOf(Tail(list))

\* C16: a symbol that no rule applies to is appended to the output as it is
\* but for the surrounding whitespace (its letter case is kept) and counted
\* nowhere; the returned list holds these symbols in input order, duplicates
\* included.
C16_KeptUnchanged ==
    /\ [][ (CleanStep /\ FirstRule(upper(Trimmed)) = "none") =>
             /\ clean_tickers' = Append(clean_tickers, Trimmed)
             /\ excluded_count' = excluded_count ]_vars
    /\ [](pc = "cleaned" => clean_return[1] = KeptOf(all_tickers))

\* C16 witness: the padded lower-case symbol ending in r, given twice, is
\* returned twice, trimmed and in lower case
C16_Witness ==
    /\ pc = "cleaned"
    /\ all_tickers = <<<<" ", "a", "r", " ">>, <<" ", "a", "r", " ">>>>
    /\ clean_return[1] = <<<<"a", "r">>, <<"a", "r">>>>

\* the symbols of the input that are excluded under the given category
CountOf(category) ==
    Cardinality({i \in 1..Len(all_tickers) :
                    FirstRule(upper(strip(all_tickers[i]))) = category})

\* C17 as stated: the function returns the list of kept symbols together with
\* the counts of exclusions by category.
C17_ReturnsListAndCounts ==
    pc = "cleaned" =>
        /\ Len(clean_return) = 2
        /\ clean_return[1] = clean_tickers
        /\ clean_return[2] = excluded_count

\* C17 amended: the function returns the list of kept symbols and nothing
\* else; the counts of exclusions by category (warrants, units, preferred,
\* rights, other) are printed, one count per category, and add up with the
\* kept symbols to the length of the input.
C17_ReturnsListPrintsCounts ==
    pc = "cleaned" =>
        /\ clean_return = <<clean_tickers>>
        /\ stdout = <<[category \in DOMAIN ZeroExcluded |-> CountOf(category)]>>
        /\ Len(clean_tickers) + CountOf("warrants") + CountOf("units")
             + CountOf("preferred") + CountOf("rights") + CountOf("other")
               = Len(all_tickers)

\* C17 witness: a list of two symbols, one kept and one excluded as a warrant
C17_Witness ==
    /\ pc = "cleaned" /\ Len(all_tickers) = 2
    /\ Len(clean_tickers) = 1
    /\ stdout = <<[ZeroExcluded EXCEPT !.warrants = 1]>>

\* ------------------------------------------------- the results saved (SpecMain)
\* C18: at the end of the pipeline the failed symbols are written to their
\* file whenever there are any, and the error details whenever an error class
\* has a symbol, whether or not a symbol was accepted.
C18_FailuresReported ==
    pc = "saved" =>
        /\ failed_tickers # <<>> => files.failed = <<failed_tickers>>
        /\ (\E k \in ErrorKeys : error_details[k] # <<>>) =>
              files.errors = <<ErrorReport(error_details)>>

\* C19: save_filtered_tickers writes a table whose rows are the accepted
\* records, each as often as it was accepted, none added, dropped or altered,
\* in descending order of market_cap, and a ticker list that holds the ticker
\* of every row of the table in the order of the table.
C19_SortedPermutation ==
    (pc = "saved" /\ viable_tickers # <<>>) =>
        /\ Len(files.table) = 1 /\ Len(files.list) = 1
        /\ LET rows == files.table[1] IN
              /\ Len(rows) = Len(viable_tickers)
              /\ \A r \in Range(rows) \cup Range(viable_tickers) :
                     Count(rows, r) = Count(viable_tickers, r)
              /\ \A i, j \in 1..Len(rows) :
                     i < j => rows[i].market_cap >= rows[j].market_cap
              /\ files.list[1] = [i \in 1..Len(rows) |-> rows[i].ticker]

\* C19 witness: two records accepted with the smaller market cap first, saved
\* with the larger market cap first
C19_Witness ==
    /\ pc = "saved" /\ Len(viable_tickers) = 2
    /\ viable_tickers[1].market_cap < viable_tickers[2].market_cap
    /\ files.table[1] = <<viable_tickers[2], viable_tickers[1]>>
    /\ files.list[1] = <<viable_tickers[2].ticker, viable_tickers[1].ticker>>

\* C20: every backoff sleep of a symbol is followed by another lookup of it:
\* a failed attempt sleeps only if it is not the last of the max_retries
\* attempts, so when the retry loop is left at most max_retries - 1 backoff
\* sleeps were taken for the symbol.
C20_BackoffOnlyBeforeRetry ==
    /\ [][ (LookupStep /\ sleeps' # sleeps) => attempt + 1 < max_retries ]_vars
    /\ [](pc = "after_retry" /\ max_retries >= 1 =>
             SleepsOf("backoff") <= max_retries - 1)

\* C21: the backoff sleep after a failed attempt is base_delay*3^a for a 429
\* and base_delay*2^a for every other retried error, where a is the number of
\* attempts of the symbol that failed before, whatever their errors were.
C21_BackoffByAttemptNumber ==
    [][ (LookupStep /\ info'.kind \in Transient) =>
          /\ pc' = "retry"
          /\ sleeps' = Append(sleeps,
                [kind |-> "backoff",
                 time |-> IF info'.kind = "HTTP429"
                          THEN base_delay * 3^Len(sleeps)
                          ELSE base_delay * 2^Len(sleeps)]) ]_vars

\* C21 witness: a failed first attempt and a 429 on the second: the second
\* sleep is base_delay*3^1, the exponent went on
C21_Witness ==
    /\ pc = "retry" /\ info.kind = "HTTP429"
    /\ sleeps = <<[kind |-> "backoff", time |-> base_delay],
                  [kind |-> "backoff", time |-> base_delay * 3]>>

\* what one uninterrupted run from an empty checkpoint accepts
Uninterrupted == NewlyAccepted(0, Len(tickers))

\* C22: a run interrupted after a checkpoint write (none of its writes
\* failed) and run again returns the accepted list of one uninterrupted run:
\* no record twice, none missing.
C22_ResumeEqualsUninterrupted ==
    (rerun /\ prev.interrupted /\ prev.flushed /\ ~prev.lost /\ pc = "done") =>
        AsRead(viable_tickers) = AsRead(Uninterrupted)

\* C23: a run that follows a completed run (none of its checkpoint writes
\* failed) and finds its checkpoint returns the accepted list the completed
\* run returned, and looks up no symbol again.
C23_CompletedRunIsFinal ==
    (rerun /\ ~prev.interrupted /\ prev.flushed /\ ~prev.lost /\ pc = "done") =>
        /\ AsRead(viable_tickers) = AsRead(prev.returned.viable)
        /\ fetched = {}

\* --------------------------------------------------- accounting at return
\* the counts of the claim: processed symbols, newly accepted records, the
\* entries of the error classes of exhausted symbols
Processed == Len(tickers) - start_index
NewlyAcceptedCount == Len(viable_tickers) - start_index
RetryClasses == ErrorKeys \ {"not_found"}
\* the positions of the processed slice that ended with the given outcome
Ended(o) == {p \in Offsets : p >= start_index /\ outcome[p] = o}
\* every position counted once, the failed list as long as the no_data count
Accounted ==
    /\ NewlyAcceptedCount + filtered_out.market_cap + filtered_out.price
         + filtered_out.volume + filtered_out.no_data + Len(error_details.not_found)
           = Processed
    /\ Len(failed_tickers) = filtered_out.no_data
\* the entries symbol s has in the error classes of K
Entries(s, K) == Cardinality({<<k, i>> \in K \X (1..MaxTickers + 1) :
                                 i <= Len(error_details[k]) /\ error_details[k][i] = s})

\* C24 as stated: every processed symbol is counted once, the failed list is
\* as long as the no_data count, the five error class lists are pairwise
\* disjoint, and every exhausted symbol is in one class other than not_found.
C24_AccountingDisjoint ==
    pc = "done" =>
        /\ Accounted
        /\ \A k1, k2 \in ErrorKeys :
              k1 # k2 => Range(error_details[k1]) \cap Range(error_details[k2]) = {}
        /\ \A p \in Ended("failed") :
              Cardinality({k \in RetryClasses : tickers[p + 1] \in Range(error_details[k])}) = 1

\* C24 amended: every processed position is counted once, the failed list is
\* as long as the no_data count, and every position adds at most one entry
\* to the error classes: one to not_found if it ended not found, one to one
\* of the other classes if it exhausted its retries; the five lists are
\* pairwise disjoint when no symbol is repeated in the input.
C24_AccountingPerPosition ==
    pc = "done" =>
        /\ Accounted
        /\ \A s \in Range(tickers) :
              /\ Entries(s, {"not_found"}) =
                    Cardinality({p \in Ended("not_found") : tickers[p + 1] = s})
              /\ Entries(s, RetryClasses) =
                    Cardinality({p \in Ended("failed") : tickers[p + 1] = s})
        /\ (\A i, j \in 1..Len(tickers) : tickers[i] = tickers[j] => i = j) =>
              \A k1, k2 \in ErrorKeys :
                k1 # k2 => Range(error_details[k1]) \cap Range(error_details[k2]) = {}

\* C24 witness: the same symbol twice in the input, not found the first time
\* and out of retries the second time: it is in two error classes
C24_Witness ==
    /\ pc = "done" /\ Len(tickers) = 2 /\ tickers[1] = tickers[2]
    /\ outcome[0] = "not_found" /\ outcome[1] = "failed"
    /\ Len(error_details.not_found) = 1 /\ Len(failed_tickers) = 1
    /\ filtered_out.no_data = 1

\* C25: a lookup that returns data after earlier attempts of the symbol
\* failed decides the symbol alone: the symbol is accepted, rejected under a
\* threshold or no_data exactly as on a first attempt, it enters the failed
\* list only as no_data, and neither this step nor the categorisation after
\* the retry loop puts it in an error class or changes its outcome.
C25_LateSuccessDecides ==
    /\ [][ (DataStep /\ sleeps # <<>>) =>
             /\ Break
             /\ error_details' = error_details
             /\ IF AllZero(info')
                THEN /\ failed_tickers' = Append(failed_tickers, ticker)
                     /\ viable_tickers' = viable_tickers
                     /\ filtered_out' = [filtered_out EXCEPT !.no_data = @ + 1]
                ELSE /\ failed_tickers' = failed_tickers
                     /\ \/ Accepted(info')
                        \/ \E reason \in {"market_cap", "price", "volume"} :
                              Rejected(reason) ]_vars
    /\ [][ (pc = "after_retry" /\ info.kind = "data") =>
             UNCHANGED <<viable_tickers, failed_tickers, filtered_out,
                         error_details, outcome>> ]_vars

\* C25 witness: accepted on the second attempt, after one backoff sleep, and
\* past the categorisation with no failure recorded
C25_Witness ==
    /\ pc = "checkpoint" /\ Len(sleeps) = 1 /\ outcome[cur] = "viable"
    /\ Len(viable_tickers) = 1
    /\ failed_tickers = <<>> /\ error_details = EmptyErrors
    /\ filtered_out = ZeroCounts

\* a step in which a lookup is made for the current symbol: it leaves a
\* backoff sleep, ends the symbol, or ends the function
AttemptStep == pc = "retry" /\ (sleeps' # sleeps \/ success' \/ pc' = "raised")

\* C26: a lookup is made for a symbol only while fewer than max_retries
\* lookups were made for it, all of them failed with a retried error, and the
\* symbol has no outcome yet; every symbol before it in the input has its
\* outcome and no symbol after it was looked up.
C26_BoundedOrderedAttempts ==
    /\ [][ AttemptStep =>
             /\ Len(sleeps) < max_retries
             /\ SleepsOf("backoff") = Len(sleeps)
             /\ outcome[cur] = "pending"
             /\ fetched' = fetched \cup {cur}
             /\ \A p \in Offsets : p < cur => outcome[p] # "pending"
             /\ \A p \in Offsets : p > cur => p \notin fetched /\ outcome[p] = "pending"
          ]_vars
    /\ [](pc \in {"retry", "after_retry"} => Len(sleeps) <= max_retries)

\* C26 witness: the second symbol used up the largest number of attempts
\* after the first symbol had its outcome
C26_Witness ==
    /\ pc = "after_retry" /\ ~success /\ idx = 1
    /\ max_retries = MaxRetries /\ Len(sleeps) = MaxRetries
    /\ fetched = {0, 1} /\ outcome[0] # "pending" /\ outcome[1] = "pending"

\* ---------------------------------------------- checkpoint and the lists
IsPrefix(a, b) == Len(a) <= Len(b) /\ SubSeq(b, 1, Len(a)) = a

\* C27: from the loading of the checkpoint (lines 96 to 106) to the return of
\* a call, the records in the checkpoint, as read_csv gives them, are a prefix
\* of the accepted list in memory; within a call the checkpoint never gets
\* shorter, and the accepted list, the failed list and every error class list
\* only grow at their end.
C27_CheckpointIsPrefix ==
    /\ [](pc # "start" =>
             IsPrefix(read_csv(checkpoint_file.rows), AsRead(viable_tickers)))
    /\ [][ pc' # "start" =>
             /\ Len(checkpoint_file'.rows) >= Len(checkpoint_file.rows)
             /\ IsPrefix(viable_tickers, viable_tickers')
             /\ IsPrefix(failed_tickers, failed_tickers')
             /\ \A k \in ErrorKeys : IsPrefix(error_details[k], error_details'[k])
          ]_vars

\* C27 witness: three records accepted, the checkpoint written after the
\* second holds the first two
C27_Witness ==
    /\ ~rerun /\ pc = "done" /\ checkpoint_interval = 2
    /\ Len(viable_tickers) = 3
    /\ checkpoint_file.rows = to_csv(SubSeq(viable_tickers, 1, 2))

\* ------------------------------------- failure outputs of a resumed call
\* the number of offsets from..to-1 whose symbol ends with one of the verdicts
CountVerdict(verdicts, from, to) ==
    Cardinality({p \in Offsets : from <= p /\ p < to
                                  /\ StubVerdict(tickers[p + 1]) \in verdicts})
NewCounts(from, to) ==
    [market_cap |-> CountVerdict({"market_cap"}, from, to),
     price      |-> CountVerdict({"price"}, from, to),
     volume     |-> CountVerdict({"volume"}, from, to),
     no_data    |-> CountVerdict({"no_data", "failed"}, from, to)]

\* C28: a call that finds a checkpoint of k records starts with an empty
\* failed list, zero rejection counts and empty error classes, only the
\* accepted list being taken from the checkpoint; no position before k ever
\* gets an outcome, and at the return the failed list, the counts and the
\* error classes are exactly what the positions of input[k:] produce.
C28_FailuresOfTheSliceOnly ==
    (rerun /\ prev.flushed /\ pc # "start") =>
        LET k == FirstOffset IN
        /\ k = Len(prev.left) /\ start_index = k
        /\ (pc = "for" /\ idx = 0) =>
              /\ viable_tickers = Loaded
              /\ failed_tickers = <<>>
              /\ filtered_out = ZeroCounts
              /\ error_details = EmptyErrors
        /\ \A p \in Offsets : p < k => outcome[p] = "pending"
        /\ Len(failed_tickers) <= idx + 1
        /\ \A key \in ErrorKeys : Len(error_details[key]) <= idx + 1
        /\ pc = "done" =>
              /\ failed_tickers = NewlyFailed(k, EndOffset)
              /\ filtered_out = NewCounts(k, EndOffset)
              /\ \A key \in ErrorKeys :
                     error_details[key] = NewlyIn(key, k, EndOffset)

\* C28 witness: the symbol at position 0 is one the source answers with 404,
\* the checkpoint holds one record, and the resumed call returns with that
\* symbol in its not_found class once, for position 2
C28_Witness ==
    /\ rerun /\ prev.flushed /\ pc = "done"
    /\ Len(prev.left) = 1 /\ Len(tickers) = 3
    /\ StubVerdict(tickers[1]) = "not_found" /\ tickers[3] = tickers[1]
    /\ error_details.not_found = <<tickers[3]>>
    /\ failed_tickers = <<>>

\* ------------------------------------------------------ no attempt at all
\* C29: with max_retries = 0 no lookup and no backoff sleep is ever made and
\* no record is accepted; when the loop is between two symbols or has
\* returned, the symbols processed so far are the failed list and the
\* other_error class, in input order, the no_data count is their number,
\* every other count and class is empty, and the symbol just processed took
\* the one base_delay sleep.
C29_ZeroRetriesFailsAll ==
    max_retries = 0 =>
        /\ fetched = {}
        /\ SleepsOf("backoff") = 0
        /\ viable_tickers = <<>>
        /\ pc # "raised" /\ ~success /\ last_error = "None"
        /\ pc \in {"for", "done"} =>
              /\ failed_tickers = SubSeq(tickers, 1, idx)
              /\ filtered_out = [ZeroCounts EXCEPT !.no_data = idx]
              /\ error_details = [EmptyErrors EXCEPT !.other_error = SubSeq(tickers, 1, idx)]
              /\ \A p \in Offsets : p < idx => outcome[p] = "failed"
              /\ idx > 0 => sleeps = <<[kind |-> "base", time |-> base_delay]>>
        /\ pc = "done" => idx = Len(tickers)

\* C29 witness: a call with max_retries = 0 on two symbols has returned, both
\* failed, neither looked up
C29_Witness ==
    /\ max_retries = 0 /\ pc = "done" /\ Len(tickers) = 2
    /\ fetched = {}
    /\ failed_tickers = tickers
    /\ error_details.other_error = tickers
    /\ filtered_out.no_data = 2

\* ------------------------------------------------- conservation of counts
ExcludedSum(counts) ==
    counts.warrants + counts.units + counts.preferred + counts.rights + counts.other
Raised(before, after) == {c \in DOMAIN ZeroExcluded : after[c] # before[c]}

\* C30: at every point of clean_ticker_list the kept symbols and the five
\* counters add up to the number of symbols gone through, hence to the length
\* of the input at the return; a symbol is either kept, and no counter
\* changes, or raises exactly one counter by one, and nothing is kept.
C30_CountsConserved ==
    /\ [](pc \in {"clean", "cleaned"} =>
             /\ Len(clean_tickers) + ExcludedSum(excluded_count) = ci
             /\ pc = "cleaned" => ci = Len(all_tickers))
    /\ [][ CleanStep =>
             \/ /\ Len(clean_tickers') = Len(clean_tickers) + 1
                /\ Raised(excluded_count, excluded_count') = {}
             \/ /\ clean_tickers' = clean_tickers
                /\ \E c \in DOMAIN ZeroExcluded :
                      /\ Raised(excluded_count, excluded_count') = {c}
                      /\ excluded_count'[c] = excluded_count[c] + 1
          ]_vars

\* C30 witness: A^U, which has a special character and ends with U, and AU
\* have been gone through: one count of other, one of units, nothing kept
C30_Witness ==
    /\ pc = "cleaned"
    /\ all_tickers = << <<"A", "^", "U">>, <<"A", "U">> >>
    /\ clean_tickers = <<>>
    /\ excluded_count = [ZeroExcluded EXCEPT !.other = 1, !.units = 1]

====
